---- MODULE Spec2Model ----
(***************************************************************************)
(* A model of the reflectclient package: the Builder, Client.Init (the     *)
(* descriptor compiler), buildRequestMeta (the request synthesizer), the   *)
(* invoker built by makeRequestFunc (dispatch, retry, decode) and the one  *)
(* built by makeWebSocketFunc.                                             *)
(*                                                                         *)
(* Go strings are modelled as tuples of one-character strings, so that     *)
(* strings.Replace, fmt.Sprint and url.Values.Encode are computed and not  *)
(* assumed.  Go maps are functions; the order in which a `range` visits a  *)
(* map is an explicit parameter chosen by the caller of the operator.      *)
(***************************************************************************)
EXTENDS Integers, Sequences, FiniteSets, TLC

VARIABLES
    phase,        \* "builder" | "built" | "inited" : lifecycle of Builder/Client
    builder,      \* the Builder's fields
    client,       \* the Client's fields (meaningful once phase # "builder")
    service,      \* the service handed to Client.Init
    slots,        \* per service field: "unbound" | "request" | "websocket"
    metas,        \* per service field: the MethodMeta captured by its invoker
    initErr,      \* what Client.Init returned
    pc,           \* position of the running invoker
    call,         \* the running call
    result,       \* the two values returned by the invoker
    synth         \* synthesizer specification: the invocations compared

vars == <<phase, builder, client, service, slots, metas, initErr, pc, call,
          result, synth>>

----------------------------------------------------------------------------
(* Bounds *)

MaxRetries == 2
MaxAttempts == 4
MaxTransformers == 2
MaxStubs == 2

----------------------------------------------------------------------------
(* Strings *)

NoErr == "nil"

RECURSIVE Replace(_, _, _)
Replace(s, old, new) ==
    IF Len(s) < Len(old) THEN s
    ELSE IF SubSeq(s, 1, Len(old)) = old
         THEN new \o Replace(SubSeq(s, Len(old) + 1, Len(s)), old, new)
         ELSE <<s[1]>> \o Replace(Tail(s), old, new)

DigitChars == <<"0", "1", "2", "3", "4", "5", "6", "7", "8", "9">>

RECURSIVE FormatInt(_)
FormatInt(n) ==
    IF n < 10 THEN <<DigitChars[n + 1]>>
    ELSE FormatInt(n \div 10) \o <<DigitChars[(n % 10) + 1]>>

RECURSIVE JoinInts(_)
JoinInts(bs) ==
    IF bs = <<>> THEN <<>>
    ELSE IF Len(bs) = 1 THEN FormatInt(bs[1])
    ELSE FormatInt(bs[1]) \o <<" ">> \o JoinInts(Tail(bs))

\* fmt.Sprint(v.Interface()) for the kinds of value the model carries
Sprint(v) ==
    CASE v.Kind = "int" -> FormatInt(v.n)
      [] v.Kind = "string" -> v.s
      [] v.Kind = "bytes" -> <<"[">> \o JoinInts(v.b) \o <<"]">>
      [] OTHER -> <<"<", ">">>

\* byte order of the characters the model uses
CharOrder ==
    <<"\n", " ", "%", "&", "+", "-", "/", "0", "1", "2", "3", "4", "5", "6",
      "7", "8", "9", "<", "=", ">", "A", "B", "D", "F", "I", "Q", "T", "X",
      "[", "]", "a", "b", "d", "i", "q", "t", "x", "{", "}">>

CharCodes ==
    <<10, 32, 37, 38, 43, 45, 47, 48, 49, 50, 51, 52, 53, 54,
      55, 56, 57, 60, 61, 62, 65, 66, 68, 70, 73, 81, 84, 88,
      91, 93, 97, 98, 100, 105, 113, 116, 120, 123, 125>>

Rank(c) == CHOOSE i \in 1..Len(CharOrder) : CharOrder[i] = c

\* []byte(s)
BytesOf(s) == [i \in 1..Len(s) |-> CharCodes[Rank(s[i])]]

RECURSIVE StrLess(_, _)
StrLess(a, b) ==
    IF b = <<>> THEN FALSE
    ELSE IF a = <<>> THEN TRUE
    ELSE IF a[1] = b[1] THEN StrLess(Tail(a), Tail(b))
    ELSE Rank(a[1]) < Rank(b[1])

Unreserved ==
    {"-", "0", "1", "2", "3", "4", "5", "6", "7", "8", "9", "A", "B", "D",
     "F", "I", "Q", "T", "X", "a", "b", "d", "i", "q", "t", "x"}

EscapeChar(c) ==
    CASE c \in Unreserved -> <<c>>
      [] c = " " -> <<"+">>
      [] c = "\n" -> <<"%", "0", "A">>
      [] c = "%" -> <<"%", "2", "5">>
      [] c = "&" -> <<"%", "2", "6">>
      [] c = "+" -> <<"%", "2", "B">>
      [] c = "/" -> <<"%", "2", "F">>
      [] c = "<" -> <<"%", "3", "C">>
      [] c = "=" -> <<"%", "3", "D">>
      [] c = ">" -> <<"%", "3", "E">>
      [] c = "[" -> <<"%", "5", "B">>
      [] c = "]" -> <<"%", "5", "D">>
      [] c = "{" -> <<"%", "7", "B">>
      [] c = "}" -> <<"%", "7", "D">>

RECURSIVE QueryEscape(_)
QueryEscape(s) ==
    IF s = <<>> THEN <<>> ELSE EscapeChar(s[1]) \o QueryEscape(Tail(s))

----------------------------------------------------------------------------
(* url.Values and http.Header: maps from a key to the list of its values *)

EmptyMap == [k \in {} |-> <<>>]

MapPut(m, k, v) == [x \in (DOMAIN m) \cup {k} |-> IF x = k THEN v ELSE m[x]]

ValuesAdd(m, k, v) ==
    MapPut(m, k, IF k \in DOMAIN m THEN Append(m[k], v) ELSE <<v>>)

UpperOf(c) ==
    CASE c = "a" -> "A" [] c = "b" -> "B" [] c = "d" -> "D" [] c = "i" -> "I"
      [] c = "q" -> "Q" [] c = "t" -> "T" [] c = "x" -> "X" [] OTHER -> c

LowerOf(c) ==
    CASE c = "A" -> "a" [] c = "B" -> "b" [] c = "D" -> "d" [] c = "I" -> "i"
      [] c = "Q" -> "q" [] c = "T" -> "t" [] c = "X" -> "x" [] OTHER -> c

\* textproto.CanonicalMIMEHeaderKey: a key holding a byte that is not a
\* token byte is returned unchanged
CanonicalHeaderKey(k) ==
    IF \E i \in 1..Len(k) : k[i] \notin Unreserved THEN k
    ELSE [i \in 1..Len(k) |->
              IF i = 1 \/ k[i - 1] = "-" THEN UpperOf(k[i]) ELSE LowerOf(k[i])]

HeaderAdd(h, k, v) == ValuesAdd(h, CanonicalHeaderKey(k), v)

MinKey(S) == CHOOSE k \in S : \A o \in S : o = k \/ StrLess(k, o)

RECURSIVE EncodeKey(_, _)
EncodeKey(k, vs) ==
    IF vs = <<>> THEN <<>>
    ELSE QueryEscape(k) \o <<"=">> \o QueryEscape(vs[1])
         \o (IF Len(vs) > 1 THEN <<"&">> \o EncodeKey(k, Tail(vs)) ELSE <<>>)

RECURSIVE EncodeKeys(_, _)
EncodeKeys(m, keys) ==
    IF keys = {} THEN <<>>
    ELSE LET k == MinKey(keys)
             rest == EncodeKeys(m, keys \ {k})
             here == EncodeKey(k, m[k])
         IN here \o (IF here # <<>> /\ rest # <<>> THEN <<"&">> ELSE <<>>) \o rest

\* url.Values.Encode: "k=v&k=v" sorted by key
Encode(m) == EncodeKeys(m, DOMAIN m)

----------------------------------------------------------------------------
(* Constants of the package *)

HttpMethods == <<"GET", "POST", "PUT", "DELETE">>

FeaturePath == "path"
FeatureField == "field"
FeatureQuery == "query"
FeatureHeader == "header"
FeatureBody == "body"
OptionOmitEmpty == "omitempty"

ErrTwoValues == "Functions must return two values"
ErrSecondError == "Second return value must be an error."
ErrUnsupportedMethod == "Unsupported method: "
ErrOneBody == "Only one body per request is supported."
ErrBodyAndFields == "Requests cannot have form fields and an explicit body."
ErrIncompatible == "Body and fields are incompatible."

in(needle, haystack) == \E i \in 1..Len(haystack) : haystack[i] = needle

\* elementType: the pointed-to type of a pointer, the type itself otherwise
elementType(t) == IF t.Kind = "ptr" THEN t.Elem ELSE t

InvalidValue == [Kind |-> "invalid"]

\* elementValue: Elem() of a pointer (the zero Value for a nil pointer)
elementValue(v) ==
    IF v.Kind = "ptr" THEN (IF v.isNil THEN InvalidValue ELSE v.elem) ELSE v

----------------------------------------------------------------------------
(* processStructArg *)

NoBodyField == [set |-> FALSE, Name |-> <<>>, OmitEmpty |-> FALSE]

NewStructMeta ==
    [pathFields |-> EmptyMap, formFields |-> EmptyMap,
     queryFields |-> EmptyMap, headerFields |-> EmptyMap,
     bodyField |-> NoBodyField]

\* one iteration of the loop over the record's fields; acc = [sm, err]
processField(acc, field) ==
    IF acc.err # NoErr THEN acc
    ELSE IF field.Kind = "func" THEN acc
    ELSE IF field.feature = "" THEN acc
    ELSE
      LET name == IF field.name = <<>> THEN field.Name ELSE field.name
          arg == [Name |-> name, OmitEmpty |-> in(OptionOmitEmpty, field.options)]
          sm == acc.sm
      IN CASE field.feature = FeaturePath ->
                [acc EXCEPT !.sm.pathFields = MapPut(@, field.Name, arg)]
           [] field.feature = FeatureField ->
                [acc EXCEPT !.sm.formFields = MapPut(@, field.Name, arg)]
           [] field.feature = FeatureQuery ->
                [acc EXCEPT !.sm.queryFields = MapPut(@, field.Name, arg)]
           [] field.feature = FeatureHeader ->
                [acc EXCEPT !.sm.headerFields = MapPut(@, field.Name, arg)]
           [] field.feature = FeatureBody ->
                IF sm.bodyField.set
                THEN [acc EXCEPT !.err = ErrOneBody]
                ELSE [acc EXCEPT !.sm.bodyField =
                          [set |-> TRUE, Name |-> name,
                           OmitEmpty |-> arg.OmitEmpty]]
           [] OTHER -> acc

RECURSIVE processFields(_, _)
processFields(acc, fields) ==
    IF fields = <<>> THEN acc
    ELSE processFields(processField(acc, fields[1]), Tail(fields))

processStructArg(argType) ==
    processFields([sm |-> NewStructMeta, err |-> NoErr], argType.fields)

----------------------------------------------------------------------------
(* Client.Init: the descriptor compiler *)

NewMethodMeta(numIn) ==
    [returnType |-> "", hasBody |-> FALSE, webSocket |-> FALSE,
     path |-> <<>>, method |-> "", origin |-> <<>>,
     methodArgs |-> [i \in 1..numIn |->
                        [isStruct |-> FALSE, structMeta |-> NewStructMeta]]]

\* as hasFields, but only the first parameter is looked at
hasFieldsFirstOnly(m) ==
    \E i \in 1..Len(m.methodArgs) :
        /\ i = 1
        /\ m.methodArgs[i].isStruct
        /\ DOMAIN m.methodArgs[i].structMeta.formFields # {}

hasFields(m) ==
    \E i \in 1..Len(m.methodArgs) :
        /\ m.methodArgs[i].isStruct
        /\ DOMAIN m.methodArgs[i].structMeta.formFields # {}

\* as initStructArg, but a body in an earlier parameter is not remembered
\* against a body in a later one
initStructArgPerRecord(acc, argIdx, r) ==
    IF r.err # NoErr THEN [acc EXCEPT !.err = r.err]
    ELSE [acc EXCEPT
            !.meta.hasBody = @ \/ r.sm.bodyField.set,
            !.meta.methodArgs[argIdx] =
                [isStruct |-> TRUE, structMeta |-> r.sm]]

\* the struct branch of the loop over the parameters, given what
\* processStructArg returned
initStructArg(acc, argIdx, r) ==
    IF r.err # NoErr THEN [acc EXCEPT !.err = r.err]
    ELSE IF r.sm.bodyField.set /\ acc.meta.hasBody
         THEN [acc EXCEPT !.err = ErrOneBody]
         ELSE [acc EXCEPT
                 !.meta.hasBody = @ \/ r.sm.bodyField.set,
                 !.meta.methodArgs[argIdx] =
                     [isStruct |-> TRUE, structMeta |-> r.sm]]

\* one iteration of the loop over the parameters; acc = [meta, err]
initArg(acc, argIdx, argType) ==
    IF acc.err # NoErr THEN acc
    ELSE IF elementType(argType).Kind = "struct"
         THEN initStructArg(acc, argIdx, processStructArg(elementType(argType)))
         ELSE acc

RECURSIVE initArgs(_, _, _)
initArgs(acc, argIdx, ins) ==
    IF argIdx > Len(ins) THEN acc
    ELSE initArgs(initArg(acc, argIdx, ins[argIdx]), argIdx + 1, ins)

\* as checkBodyAndFields, but body and form fields are let through
checkBodyAndFieldsSkipped(r) == r

\* the check made once the parameters are processed
checkBodyAndFields(r) ==
    IF r.err # NoErr THEN r
    ELSE IF r.meta.hasBody /\ hasFields(r.meta)
         THEN [err |-> ErrBodyAndFields, meta |-> r.meta]
         ELSE r

\* the MethodMeta as the checks on the result types leave it
resultMeta(f) ==
    [NewMethodMeta(Len(f.In)) EXCEPT
        !.returnType = f.Out0,
        !.webSocket = (f.Out0 = "websocket"),
        !.origin = IF f.Out0 = "websocket" THEN f.origin ELSE <<>>]

\* as initField, but the verb is looked at before the result types
initFieldVerbFirst(f) ==
    IF ~in(f.method, HttpMethods)
    THEN [err |-> ErrUnsupportedMethod, meta |-> NewMethodMeta(Len(f.In))]
    ELSE IF f.NumOut # 2
    THEN [err |-> ErrTwoValues, meta |-> NewMethodMeta(Len(f.In))]
    ELSE IF f.Out1 # "error"
    THEN [err |-> ErrSecondError, meta |-> resultMeta(f)]
    ELSE checkBodyAndFields(
             initArgs([meta |-> [resultMeta(f) EXCEPT !.method = f.method,
                                                      !.path = f.path],
                       err |-> NoErr], 1, f.In))

\* the body of Init's loop for one func field: [err, meta]
initField(f) ==
    IF f.NumOut # 2
    THEN [err |-> ErrTwoValues, meta |-> NewMethodMeta(Len(f.In))]
    ELSE IF f.Out1 # "error"
    THEN [err |-> ErrSecondError, meta |-> resultMeta(f)]
    ELSE IF ~in(f.method, HttpMethods)
    THEN [err |-> ErrUnsupportedMethod, meta |-> resultMeta(f)]
    ELSE checkBodyAndFields(
             initArgs([meta |-> [resultMeta(f) EXCEPT !.method = f.method,
                                                      !.path = f.path],
                       err |-> NoErr], 1, f.In))

UnboundSlots(svc) == [i \in 1..Len(svc) |-> "unbound"]

NoMetas(svc) == [i \in 1..Len(svc) |-> NewMethodMeta(0)]

\* the end of one iteration: return the error, or bind the invoker
bindField(st, fieldIdx, r) ==
    IF r.err # NoErr THEN [st EXCEPT !.err = r.err]
    ELSE [st EXCEPT
            !.slots[fieldIdx] =
                IF r.meta.webSocket THEN "websocket" ELSE "request",
            !.metas[fieldIdx] = r.meta]

\* as initFrom, but a failing stub is skipped and the later ones are bound
RECURSIVE initFromSkipping(_, _, _)
initFromSkipping(svc, fieldIdx, st) ==
    IF fieldIdx > Len(svc) THEN st
    ELSE IF svc[fieldIdx].Kind # "func"
    THEN initFromSkipping(svc, fieldIdx + 1, st)
    ELSE IF initField(svc[fieldIdx]).err # NoErr
    THEN initFromSkipping(svc, fieldIdx + 1,
             IF st.err # NoErr THEN st
             ELSE [st EXCEPT !.err = initField(svc[fieldIdx]).err])
    ELSE initFromSkipping(svc, fieldIdx + 1,
             [bindField(st, fieldIdx, initField(svc[fieldIdx]))
                 EXCEPT !.err = st.err])

\* st = [err, slots, metas]: the service as Init has left it so far
RECURSIVE initFrom(_, _, _)
initFrom(svc, fieldIdx, st) ==
    IF fieldIdx > Len(svc) \/ st.err # NoErr THEN st
    ELSE IF svc[fieldIdx].Kind # "func" THEN initFrom(svc, fieldIdx + 1, st)
    ELSE initFrom(svc, fieldIdx + 1,
                  bindField(st, fieldIdx, initField(svc[fieldIdx])))

ClientInit(svc) ==
    initFrom(svc, 1, [err |-> NoErr, slots |-> UnboundSlots(svc),
                      metas |-> NoMetas(svc)])

----------------------------------------------------------------------------
(* Declarations the compiler is run on *)

IntType == [Kind |-> "int"]
StringType == [Kind |-> "string"]
PtrTo(t) == [Kind |-> "ptr", Elem |-> t]
StructType(fields) == [Kind |-> "struct", fields |-> fields]

Field(goName, kind, feature, name, options) ==
    [Name |-> goName, Kind |-> kind, feature |-> feature, name |-> name,
     options |-> options]

\* strings.Split of an absent rc_options tag yields one empty option
NoOptions == <<"">>
OmitEmpty == <<"omitempty">>

PathArg == StructType(<<Field(<<"I", "d">>, "int", "path", <<"i", "d">>, NoOptions)>>)
FieldArg == StructType(<<Field(<<"F">>, "string", "field", <<"x">>, NoOptions)>>)
BodyArg == StructType(<<Field(<<"B">>, "bytes", "body", <<>>, NoOptions)>>)
TwoBodyArg ==
    StructType(<<Field(<<"B">>, "bytes", "body", <<>>, NoOptions),
                 Field(<<"D">>, "bytes", "body", <<>>, NoOptions)>>)
FieldBodyArg ==
    StructType(<<Field(<<"F">>, "string", "field", <<"x">>, NoOptions),
                 Field(<<"B">>, "bytes", "body", <<>>, NoOptions)>>)
BodyFieldArg ==
    StructType(<<Field(<<"B">>, "bytes", "body", <<>>, NoOptions),
                 Field(<<"F">>, "string", "field", <<>>, OmitEmpty)>>)
TwoBodyFieldArg ==
    StructType(<<Field(<<"B">>, "bytes", "body", <<>>, NoOptions),
                 Field(<<"F">>, "string", "field", <<"x">>, NoOptions),
                 Field(<<"D">>, "bytes", "body", <<>>, NoOptions)>>)

Func(ins, numOut, out0, out1, method, path) ==
    [Kind |-> "func", In |-> ins, NumOut |-> numOut, Out0 |-> out0,
     Out1 |-> out1, method |-> method, path |-> path, origin |-> <<>>]

NonFuncField ==
    [Kind |-> "int", In |-> <<>>, NumOut |-> 0, Out0 |-> "", Out1 |-> "",
     method |-> "", path |-> <<>>, origin |-> <<>>]

PathIdx == <<"/", "{", "0", "}">>
PathId == <<"/", "{", "i", "d", "}">>

CompileStubs ==
    { NonFuncField,
      Func(<<IntType>>, 2, "bytes", "error", "GET", PathIdx),
      Func(<<>>, 0, "", "", "GET", <<>>),
      Func(<<>>, 1, "int", "", "GET", <<>>),
      Func(<<>>, 3, "int", "int", "GET", <<>>),
      Func(<<>>, 2, "iface", "iface", "GET", <<>>),
      Func(<<>>, 2, "iface", "error", "BOGUS", <<>>),
      Func(<<PtrTo(PathArg)>>, 2, "struct", "error", "GET", PathId),
      Func(<<IntType>>, 2, "websocket", "error", "GET", PathIdx),
      Func(<<PtrTo(FieldArg)>>, 2, "bytes", "error", "POST", <<>>),
      Func(<<PtrTo(BodyArg)>>, 2, "bytes", "error", "POST", <<>>),
      Func(<<PtrTo(FieldArg), PtrTo(BodyArg)>>, 2, "bytes", "error", "POST", <<>>),
      Func(<<BodyArg, FieldArg>>, 2, "bytes", "error", "PUT", <<>>),
      Func(<<PtrTo(FieldBodyArg)>>, 2, "bytes", "error", "POST", <<>>),
      Func(<<PtrTo(BodyFieldArg)>>, 2, "bytes", "error", "POST", <<>>),
      Func(<<PtrTo(TwoBodyArg)>>, 2, "bytes", "error", "POST", <<>>),
      Func(<<PtrTo(BodyArg), PtrTo(BodyArg)>>, 2, "bytes", "error", "POST", <<>>),
      Func(<<PtrTo(TwoBodyFieldArg)>>, 2, "bytes", "error", "POST", <<>>),
      Func(<<PtrTo(FieldArg), PtrTo(BodyArg)>>, 2, "bytes", "error", "PATCH", <<>>),
      Func(<<PtrTo(TwoBodyArg)>>, 2, "bytes", "error", "PATCH", <<>>),
      Func(<<PtrTo(BodyArg), BodyArg>>, 3, "bytes", "error", "POST", <<>>),
      Func(<<>>, 2, "iface", "iface", "BOGUS", <<>>),
      Func(<<IntType>>, 1, "int", "", "", PathIdx) }

SeqsUpTo(S, n) == UNION { [1..k -> S] : k \in 1..n }

CompileServices == SeqsUpTo(CompileStubs, MaxStubs)

----------------------------------------------------------------------------
(* Values handed to an invoker (reflect.Value) *)

IntValue(n) == [Kind |-> "int", n |-> n]
StringValue(str) == [Kind |-> "string", s |-> str]
BytesValue(bs) == [Kind |-> "bytes", isNil |-> FALSE, b |-> bs]
NilBytes == [Kind |-> "bytes", isNil |-> TRUE, b |-> <<>>]
StructValue(f) == [Kind |-> "struct", f |-> f]
PtrValue(e) == [Kind |-> "ptr", isNil |-> FALSE, elem |-> e]
NilPtr == [Kind |-> "ptr", isNil |-> TRUE]

IsValid(v) == v.Kind # "invalid"

\* reflect.Value.FieldByName on a struct value
FieldByName(v, fn) == IF fn \in DOMAIN v.f THEN v.f[fn] ELSE InvalidValue

isEmptyValue(v) ==
    CASE v.Kind = "string" -> Len(v.s) = 0
      [] v.Kind = "bytes" -> Len(v.b) = 0
      [] v.Kind = "int" -> v.n = 0
      [] v.Kind = "ptr" -> v.isNil
      [] OTHER -> FALSE

extractFieldValue(value, fn) == Sprint(FieldByName(value, fn))

Placeholder(name) == <<"{">> \o name \o <<"}">>

\* keys of nameMap in the order the range statement visits them
Visit(order, nameMap) == SelectSeq(order, LAMBDA k : k \in DOMAIN nameMap)

RECURSIVE applyPathFieldsIn(_, _, _, _)
applyPathFieldsIn(value, path, nameMap, keys) ==
    IF keys = <<>> THEN path
    ELSE
      LET fn == keys[1]
          n == nameMap[fn]
          next == IF ~IsValid(value) \/ (n.OmitEmpty /\ isEmptyValue(value))
                  THEN path
                  ELSE Replace(path, Placeholder(n.Name),
                               extractFieldValue(value, fn))
      IN applyPathFieldsIn(value, next, nameMap, Tail(keys))

applyPathFields(value, path, nameMap, order) ==
    applyPathFieldsIn(value, path, nameMap, Visit(order, nameMap))

applyPathIndex(value, path, index) ==
    Replace(path, Placeholder(FormatInt(index)), Sprint(value))

\* adder is a url.Values (isHeader = FALSE) or an http.Header (TRUE)
RECURSIVE applyAdderFieldsIn(_, _, _, _, _)
applyAdderFieldsIn(value, adder, nameMap, keys, isHeader) ==
    IF keys = <<>> THEN adder
    ELSE
      LET fn == keys[1]
          n == nameMap[fn]
          next == IF ~IsValid(value)
                     \/ (n.OmitEmpty /\ isEmptyValue(FieldByName(value, fn)))
                  THEN adder
                  ELSE IF isHeader
                       THEN HeaderAdd(adder, n.Name, extractFieldValue(value, fn))
                       ELSE ValuesAdd(adder, n.Name, extractFieldValue(value, fn))
      IN applyAdderFieldsIn(value, next, nameMap, Tail(keys), isHeader)

applyAdderFields(value, adder, nameMap, order, isHeader) ==
    applyAdderFieldsIn(value, adder, nameMap, Visit(order, nameMap), isHeader)

NilBody == [isNil |-> TRUE, data |-> <<>>]

NewRequestMeta(meta) ==
    [path |-> meta.path, method |-> meta.method, query |-> EmptyMap,
     fields |-> EmptyMap, headers |-> EmptyMap, body |-> NilBody]

\* path, query, form and header fields of one structured argument
applyFields(rm, structMeta, argValue, order) ==
    [rm EXCEPT
       !.path = applyPathFields(argValue, @, structMeta.pathFields, order),
       !.query = applyAdderFields(argValue, @, structMeta.queryFields,
                                  order, FALSE),
       !.fields = applyAdderFields(argValue, @, structMeta.formFields,
                                   order, FALSE),
       !.headers = applyAdderFields(argValue, @, structMeta.headerFields,
                                    order, TRUE)]

\* val = argValue.FieldByName(structMeta.bodyField.Name)
applyBodyValue(rm, bodyField, val) ==
    IF IsValid(val) /\ ~(bodyField.OmitEmpty /\ isEmptyValue(val))
    THEN IF val.Kind # "bytes"
         THEN [rm |-> rm, panic |-> TRUE]      \* Bytes on a non-slice
         ELSE [rm |-> [rm EXCEPT !.body =
                          IF val.isNil THEN NilBody
                          ELSE [isNil |-> FALSE, data |-> val.b]],
               panic |-> FALSE]
    ELSE [rm |-> rm, panic |-> FALSE]

\* the body of one structured argument
applyBody(rm, bodyField, argValue) ==
    IF ~bodyField.set THEN [rm |-> rm, panic |-> FALSE]
    ELSE IF ~IsValid(argValue)
    THEN [rm |-> rm, panic |-> TRUE]           \* FieldByName on the zero Value
    ELSE applyBodyValue(rm, bodyField, FieldByName(argValue, bodyField.Name))

\* one iteration of the loop over the arguments; acc = [rm, panic]
\* (argIdx is the Go index, counted from 0)
buildArg(acc, methodArg, arg, argIdx, order) ==
    IF acc.panic THEN acc
    ELSE IF ~methodArg.isStruct
    THEN [acc EXCEPT !.rm.path = applyPathIndex(arg, @, argIdx)]
    ELSE applyBody(applyFields(acc.rm, methodArg.structMeta,
                               elementValue(arg), order),
                   methodArg.structMeta.bodyField, elementValue(arg))

RECURSIVE buildArgs(_, _, _, _, _)
buildArgs(acc, meta, args, i, orders) ==
    IF i > Len(args) THEN acc
    ELSE buildArgs(buildArg(acc, meta.methodArgs[i], args[i], i - 1, orders[i]),
                   meta, args, i + 1, orders)

\* the check made once the arguments are processed
checkFields(r) ==
    IF r.panic THEN [rm |-> r.rm, err |-> NoErr, panic |-> TRUE]
    ELSE IF DOMAIN r.rm.fields # {}
    THEN IF ~r.rm.body.isNil
         THEN [rm |-> r.rm, err |-> ErrIncompatible, panic |-> FALSE]
         ELSE [rm |-> [r.rm EXCEPT !.body =
                          [isNil |-> FALSE,
                           data |-> BytesOf(Encode(r.rm.fields))]],
               err |-> NoErr, panic |-> FALSE]
    ELSE [rm |-> r.rm, err |-> NoErr, panic |-> FALSE]

\* [rm, err, panic]; orders[i] is the map iteration order used for argument i
buildRequestMeta(meta, args, orders) ==
    checkFields(buildArgs([rm |-> NewRequestMeta(meta), panic |-> FALSE],
                          meta, args, 1, orders))

----------------------------------------------------------------------------
(* Argument values and map iteration orders for a compiled stub *)

IntSamples == {0, 7}
StringSamples == {<<>>, <<"a">>, <<"{", "b", "}">>}
BytesSamples == {NilBytes, BytesValue(<<>>), BytesValue(<<97>>)}

KindSamples(kind) ==
    CASE kind = "int" -> {IntValue(n) : n \in IntSamples}
      [] kind = "string" -> {StringValue(x) : x \in StringSamples}
      [] kind = "bytes" -> BytesSamples

FieldNames(t) == {t.fields[i].Name : i \in 1..Len(t.fields)}

FieldKind(t, fn) ==
    LET i == CHOOSE j \in 1..Len(t.fields) : t.fields[j].Name = fn
    IN t.fields[i].Kind

StructSamples(t) ==
    {StructValue(f) :
        f \in {g \in [FieldNames(t) ->
                        UNION {KindSamples(k) : k \in {"int", "string", "bytes"}}] :
                  \A fn \in FieldNames(t) : g[fn] \in KindSamples(FieldKind(t, fn))}}

\* the values a caller can pass for a parameter of type t
ArgSamples(t) ==
    CASE t.Kind = "struct" -> StructSamples(t)
      [] t.Kind = "ptr" -> {NilPtr} \cup {PtrValue(e) : e \in StructSamples(t.Elem)}
      [] OTHER -> KindSamples(t.Kind)

ArgLists(ins) ==
    {a \in [1..Len(ins) -> UNION {ArgSamples(ins[i]) : i \in 1..Len(ins)}] :
        \A i \in 1..Len(ins) : a[i] \in ArgSamples(ins[i])}

Perms(S) ==
    {p \in [1..Cardinality(S) -> S] :
        \A i, j \in 1..Cardinality(S) : p[i] = p[j] => i = j}

\* per parameter, the orders in which a range over its role maps can run
ArgOrders(ins) ==
    {o \in [1..Len(ins) ->
              UNION {Perms(FieldNames(elementType(ins[i]))) \cup {<<>>} :
                        i \in {j \in 1..Len(ins) :
                                  elementType(ins[j]).Kind = "struct"}}
              \cup {<<>>}] :
        \A i \in 1..Len(ins) :
            IF elementType(ins[i]).Kind = "struct"
            THEN o[i] \in Perms(FieldNames(elementType(ins[i])))
            ELSE o[i] = <<>>}

----------------------------------------------------------------------------
(* Builder and Client *)

NoHandler == [kind |-> "none"]

\* a RetryHandler written by the user: its answer is its own business
CustomHandler == [kind |-> "custom"]

NewBasicRetryHandler(maxRetries) ==
    [kind |-> "basic", maxRetries |-> maxRetries, retryCount |-> 0]

\* BasicRetryHandler.Retry: the error to surface, NoErr to resend
BasicRetry(h, err) == IF h.retryCount < h.maxRetries THEN NoErr ELSE err

NewBuilder ==
    [baseUrl |-> <<>>, retryHandler |-> NoHandler, httpClient |-> "nil",
     requestTransformers |-> <<>>, unmarshaler |-> "nil"]

ZeroClient ==
    [baseUrl |-> <<>>, retryHandler |-> NoHandler, unmarshaler |-> "nil",
     requestTransformers |-> <<>>, httpClient |-> "nil"]

BuilderBuild(b) ==
    [baseUrl |-> b.baseUrl, retryHandler |-> b.retryHandler,
     unmarshaler |-> b.unmarshaler,
     requestTransformers |-> b.requestTransformers,
     httpClient |-> "http.DefaultClient"]

BaseUrls == {<<"h", ":">>, <<"\n">>}
Handlers ==
    {NewBasicRetryHandler(n) : n \in 0..MaxRetries} \cup {CustomHandler}
Transformers == {"ta", "tb"}

----------------------------------------------------------------------------
(* The outbound request *)

ErrParse == "parse error"
ErrTransport == "transport failure"
ErrOther == "handler's own failure"
ErrRead == "read failure"
ErrDecode == "decode failure"
ErrDial == "dial failure"

HasCTL(u) == \E i \in 1..Len(u) : u[i] = "\n"

\* url.Parse
ParseFails(u) == HasCTL(u)

\* url.ParseRequestURI: an absolute URI or an absolute path, never empty
ParseRequestURIFails(u) ==
    \/ u = <<>>
    \/ HasCTL(u)
    \/ (u[1] # "/" /\ ~\E i \in 2..Len(u) : u[i] = ":")

\* trace: the transformers this request has been through, oldest first
NilRequest ==
    [isNil |-> TRUE, method |-> "", url |-> <<>>, query |-> EmptyMap,
     rawQuery |-> <<>>, header |-> EmptyMap, body |-> NilBody,
     trace |-> <<>>]

\* http.NewRequest
NewRequest(method, url, body) ==
    IF ParseFails(url) THEN [req |-> NilRequest, err |-> ErrParse]
    ELSE [req |-> [isNil |-> FALSE, method |-> method, url |-> url,
                   query |-> EmptyMap, rawQuery |-> <<>>,
                   header |-> EmptyMap, body |-> body, trace |-> <<>>],
          err |-> NoErr]

RECURSIVE AddAll(_, _, _)
AddAll(m, k, vs) ==
    IF vs = <<>> THEN m ELSE AddAll(ValuesAdd(m, k, vs[1]), k, Tail(vs))

RECURSIVE MergeKeys(_, _, _)
MergeKeys(m, extra, keys) ==
    IF keys = {} THEN m
    ELSE LET k == MinKey(keys)
         IN MergeKeys(AddAll(m, k, extra[k]), extra, keys \ {k})

\* the two loops that Add every value of `extra` to `m`; distinct keys do
\* not interfere, so the order over the keys of `extra` does not show
Merge(m, extra) == MergeKeys(m, extra, DOMAIN extra)

WithQuery(req, q) == [req EXCEPT !.query = q, !.rawQuery = Encode(q)]

\* a RequestTransformer written by the user
Transform(t, req) ==
    LET out == IF t = "ta"
               THEN WithQuery(req, ValuesAdd(req.query, <<"t">>, <<"a">>))
               ELSE WithQuery(req, ValuesAdd(req.query, <<"t">>, <<"b">>))
    IN [out EXCEPT !.trace = Append(@, t)]

\* as applyRequestTransformers, but the last registered runs first
RECURSIVE applyRequestTransformersReversed(_, _)
applyRequestTransformersReversed(ts, req) ==
    IF ts = <<>> THEN req
    ELSE applyRequestTransformersReversed(SubSeq(ts, 1, Len(ts) - 1),
                                          Transform(ts[Len(ts)], req))

RECURSIVE applyRequestTransformers(_, _)
applyRequestTransformers(ts, req) ==
    IF ts = <<>> THEN req
    ELSE applyRequestTransformers(Tail(ts), Transform(ts[1], req))

\* Client.handleResponse; resp is "nil" or [read, decode], the outcome of
\* reading its body and of decoding it
handleResponse(c, meta, resp, err) ==
    IF err # NoErr THEN [payload |-> "zero", err |-> err]
    ELSE IF resp.isNil THEN [payload |-> "zero", err |-> NoErr]
    ELSE IF resp.read # NoErr THEN [payload |-> "zero", err |-> resp.read]
    ELSE IF c.unmarshaler = "nil" THEN [payload |-> "bytes", err |-> NoErr]
    ELSE IF resp.decode # NoErr THEN [payload |-> "zero", err |-> resp.decode]
    ELSE [payload |-> meta.returnType, err |-> NoErr]

NilResponse == [isNil |-> TRUE, read |-> NoErr, decode |-> NoErr]

\* reflect.MakeFunc checks what the closure returned against the stub's
\* result types and panics on a mismatch
WrongType(meta, rvals) ==
    rvals.payload # "zero" /\ rvals.payload # meta.returnType

----------------------------------------------------------------------------
(* The services the dispatch specification initializes *)

GoodOrigin == <<"h", ":">>

StubIndex == Func(<<IntType>>, 2, "bytes", "error", "GET", PathIdx)
StubById == Func(<<PtrTo(PathArg)>>, 2, "struct", "error", "GET", PathId)
StubSocket ==
    [Func(<<IntType>>, 2, "websocket", "error", "GET", PathIdx)
        EXCEPT !.origin = GoodOrigin]
StubSocketNoOrigin == Func(<<>>, 2, "websocket", "error", "GET", <<"/">>)
StubBogus == Func(<<>>, 2, "iface", "error", "BOGUS", <<>>)
StubForm == Func(<<PtrTo(FieldArg)>>, 2, "bytes", "error", "POST", <<"/">>)

DispatchServices ==
    { <<StubIndex, StubById, StubSocket>>,
      <<StubIndex, StubBogus, StubById>>,
      <<StubSocketNoOrigin, StubForm>> }

----------------------------------------------------------------------------
(* State of the running invoker *)

NoResult == [payload |-> "zero", err |-> NoErr]

IdleCall ==
    [kind |-> "none", stub |-> 0, args |-> <<>>, req |-> NilRequest,
     attempts |-> 0,      \* calls of client.Do
     failedDos |-> 0,     \* calls of client.Do that returned an error
     consults |-> 0,      \* calls of retryHandler.Retry
     lastRetry |-> NoErr, \* what the last Retry returned
     dials |-> 0,         \* calls of websocket.DialConfig
     sent |-> <<>>,       \* the requests handed to client.Do, in order
     via |-> "nil",       \* the *http.Client the requests went through
     stage |-> "none"]    \* where the call ended

NoSynthResult == [rm |-> NewRequestMeta(NewMethodMeta(0)), err |-> NoErr,
                  panic |-> FALSE]

\* n invocations of buildRequestMeta(meta, args) made so far; r1, r2 what
\* they returned and o1, o2 the map iteration orders they ran with
NoSynth == [stub |-> NonFuncField, meta |-> NewMethodMeta(0), args |-> <<>>,
            n |-> 0, r1 |-> NoSynthResult, r2 |-> NoSynthResult,
            o1 |-> <<>>, o2 |-> <<>>]

Init ==
    /\ phase = "builder"
    /\ builder = NewBuilder
    /\ client = ZeroClient
    /\ service = <<>>
    /\ slots = <<>>
    /\ metas = <<>>
    /\ initErr = NoErr
    /\ pc = "idle"
    /\ call = IdleCall
    /\ result = NoResult
    /\ synth = NoSynth

other == <<synth>>
svcVars == <<service, slots, metas, initErr>>
callVars == <<pc, call, result>>

----------------------------------------------------------------------------
(* Builder *)

BaseUrl(baseUrl) ==
    /\ phase = "builder"
    /\ builder' = [builder EXCEPT !.baseUrl = baseUrl]
    /\ UNCHANGED <<phase, client, svcVars, callVars, other>>

AddRequestTransformer(transformer) ==
    /\ phase = "builder"
    /\ Len(builder.requestTransformers) < MaxTransformers
    /\ builder' = [builder EXCEPT !.requestTransformers = Append(@, transformer)]
    /\ UNCHANGED <<phase, client, svcVars, callVars, other>>

SetUnmarshaler(unmarshaler) ==
    /\ phase = "builder"
    /\ builder' = [builder EXCEPT !.unmarshaler = unmarshaler]
    /\ UNCHANGED <<phase, client, svcVars, callVars, other>>

SetRetryHandler(r) ==
    /\ phase = "builder"
    /\ builder' = [builder EXCEPT !.retryHandler = r]
    /\ UNCHANGED <<phase, client, svcVars, callVars, other>>

SetHttpClient(c) ==
    /\ phase = "builder"
    /\ builder' = [builder EXCEPT !.httpClient = c]
    /\ UNCHANGED <<phase, client, svcVars, callVars, other>>

Build ==
    /\ phase = "builder"
    /\ client' = BuilderBuild(builder)
    /\ phase' = "built"
    /\ UNCHANGED <<builder, svcVars, callVars, other>>

InitReturns(svc, r) ==
    /\ service' = svc
    /\ slots' = r.slots
    /\ metas' = r.metas
    /\ initErr' = r.err

\* client.Init(service)
InitService(svc) ==
    /\ phase = "built"
    /\ InitReturns(svc, ClientInit(svc))
    /\ phase' = "inited"
    /\ UNCHANGED <<builder, client, callVars, other>>

----------------------------------------------------------------------------
(* The invoker built by makeRequestFunc *)

\* what the user's RetryHandler may answer to a failure
Answers == {NoErr, ErrTransport, ErrOther}

Retry(h, err, ans) == IF h.kind = "basic" THEN BasicRetry(h, err) ELSE ans

\* as retryDecision, but the request is sent again whatever Retry answered
retryDecisionIgnoringAnswer(c, err, ans) ==
    IF err # NoErr /\ c.retryHandler.kind # "none"
    THEN [consulted |-> TRUE, err |-> Retry(c.retryHandler, err, ans),
          resend |-> TRUE]
    ELSE [consulted |-> FALSE, err |-> err, resend |-> FALSE]

\* the `if` inside the send loop: is the handler consulted, what error is
\* left, is the request sent again
retryDecision(c, err, ans) ==
    IF err # NoErr /\ c.retryHandler.kind # "none"
    THEN [consulted |-> TRUE, err |-> Retry(c.retryHandler, err, ans),
          resend |-> (Retry(c.retryHandler, err, ans) = NoErr)]
    ELSE [consulted |-> FALSE, err |-> err, resend |-> FALSE]

\* query and headers are merged into the request, which then goes through
\* the transformers
finishRequest(c, rm, req) ==
    applyRequestTransformers(c.requestTransformers,
        [WithQuery(req, Merge(req.query, rm.query))
            EXCEPT !.header = Merge(@, rm.headers)])

\* nr is what http.NewRequest returned.  When it failed the result of
\* handleResponse is dropped and req.URL is read through a nil req.
requestFrom(c, rm, nr) ==
    IF nr.err # NoErr
    THEN [pc |-> "fault", req |-> NilRequest, rvals |-> NoResult]
    ELSE [pc |-> "send", req |-> finishRequest(c, rm, nr.req),
          rvals |-> NoResult]

\* r is what buildRequestMeta returned
requestFor(c, meta, r) ==
    IF r.panic THEN [pc |-> "fault", req |-> NilRequest, rvals |-> NoResult]
    ELSE IF r.err # NoErr
    THEN [pc |-> "done", req |-> NilRequest,
          rvals |-> handleResponse(c, meta, NilResponse, r.err)]
    ELSE requestFrom(c, r.rm,
             NewRequest(r.rm.method, c.baseUrl \o r.rm.path, r.rm.body))

\* the part of the closure before the send loop:
\* [pc, req, rvals] with pc = "send", "done" (returned) or "fault" (panic)
prepareRequest(c, meta, args, orders) ==
    requestFor(c, meta, buildRequestMeta(meta, args, orders))

Started(kind, i, args, p, failedAt) ==
    /\ pc' = p.pc
    /\ result' = p.rvals
    /\ call' = [IdleCall EXCEPT !.kind = kind, !.stub = i, !.args = args,
                                !.req = p.req,
                                !.stage = IF p.pc \in {"send", "dial"}
                                          THEN "none" ELSE failedAt]

Invoke(i, args, orders) ==
    /\ phase = "inited"
    /\ pc = "idle"
    /\ slots[i] = "request"
    /\ Started("request", i, args,
               prepareRequest(client, metas[i], args, orders), "build")
    /\ UNCHANGED <<phase, builder, client, svcVars, other>>

\* what one client.Do can come to: an error, or a response whose body
\* reads and decodes or not
DoOutcomes ==
    {[err |-> ErrTransport, resp |-> NilResponse]}
    \cup {[err |-> NoErr,
           resp |-> [isNil |-> FALSE, read |-> rd, decode |-> dc]] :
             rd \in {NoErr, ErrRead}, dc \in {NoErr, ErrDecode}}

\* the call after one more client.Do
Sent(o, d) ==
    [call EXCEPT
       !.attempts = @ + 1,
       !.failedDos = IF o.err # NoErr THEN @ + 1 ELSE @,
       !.consults = IF d.consulted THEN @ + 1 ELSE @,
       !.lastRetry = IF d.consulted THEN d.err ELSE @,
       !.sent = Append(@, call.req),
       !.via = client.httpClient]

StageOf(o, rvals) ==
    CASE o.err # NoErr -> "transport"
      [] o.resp.read # NoErr -> "read"
      [] rvals.err # NoErr -> "decode"
      [] OTHER -> "ok"

\* the closure returns rvals through reflect.MakeFunc
Returned(meta, o, d, rvals) ==
    /\ pc' = IF WrongType(meta, rvals) THEN "fault" ELSE "done"
    /\ call' = [Sent(o, d) EXCEPT !.stage = StageOf(o, rvals)]
    /\ result' = IF WrongType(meta, rvals) THEN NoResult ELSE rvals

\* d is the retry decision taken on what client.Do returned
Decided(o, d) ==
    IF d.resend
    THEN /\ pc' = "send"
         /\ call' = Sent(o, d)
         /\ result' = result
    ELSE Returned(metas[call.stub], o, d,
                  handleResponse(client, metas[call.stub], o.resp, d.err))

\* one iteration of the send loop
Do(o, ans) ==
    /\ pc = "send"
    /\ call.attempts < MaxAttempts
    /\ Decided(o, retryDecision(client, o.err, ans))
    /\ UNCHANGED <<phase, builder, client, svcVars, other>>

----------------------------------------------------------------------------
(* The invoker built by makeWebSocketFunc *)

\* websocket.NewConfig
NewConfig(server, origin) ==
    IF ParseRequestURIFails(server) \/ ParseRequestURIFails(origin)
    THEN [config |-> NilRequest, err |-> ErrParse]
    ELSE [config |-> [NilRequest EXCEPT !.isNil = FALSE, !.url = server],
          err |-> NoErr]

\* nc is what websocket.NewConfig returned
configFrom(rm, nc) ==
    IF nc.err # NoErr
    THEN [pc |-> "done", req |-> NilRequest,
          rvals |-> [payload |-> "zero", err |-> nc.err]]
    ELSE [pc |-> "dial",
          req |-> [WithQuery(nc.config, Merge(nc.config.query, rm.query))
                      EXCEPT !.header = Merge(@, rm.headers)],
          rvals |-> NoResult]

\* r is what buildRequestMeta returned; its error is dropped and rm is
\* read, so a nil rm panics
socketFor(c, meta, r) ==
    IF r.panic \/ r.err # NoErr
    THEN [pc |-> "fault", req |-> NilRequest, rvals |-> NoResult]
    ELSE configFrom(r.rm, NewConfig(c.baseUrl \o r.rm.path, meta.origin))

\* the closure up to the dial: [pc, req, rvals]
prepareSocket(c, meta, args, orders) ==
    socketFor(c, meta, buildRequestMeta(meta, args, orders))

\* the two returns after websocket.DialConfig
dialResult(meta, err) ==
    IF err # NoErr THEN [payload |-> "zero", err |-> err]
    ELSE [payload |-> meta.returnType, err |-> NoErr]

Open(i, args, orders) ==
    /\ phase = "inited"
    /\ pc = "idle"
    /\ slots[i] = "websocket"
    /\ Started("websocket", i, args,
               prepareSocket(client, metas[i], args, orders), "config")
    /\ UNCHANGED <<phase, builder, client, svcVars, other>>

\* as Dial, but a failed dial goes to the retry handler as a failed send does
DialWithRetry(err) ==
    /\ pc = "dial"
    /\ call.dials < MaxAttempts
    /\ IF err # NoErr /\ client.retryHandler.kind # "none"
       THEN /\ pc' = "dial"
            /\ result' = result
            /\ call' = [call EXCEPT !.dials = @ + 1, !.consults = @ + 1]
       ELSE /\ pc' = "done"
            /\ result' = dialResult(metas[call.stub], err)
            /\ call' = [call EXCEPT !.dials = @ + 1,
                                    !.stage = IF err # NoErr THEN "dial" ELSE "ok"]
    /\ UNCHANGED <<phase, builder, client, svcVars, other>>

Dial(err) ==
    /\ pc = "dial"
    /\ pc' = "done"
    /\ result' = dialResult(metas[call.stub], err)
    /\ call' = [call EXCEPT !.dials = @ + 1,
                            !.stage = IF err # NoErr THEN "dial" ELSE "ok"]
    /\ UNCHANGED <<phase, builder, client, svcVars, other>>

\* the caller takes the two results; the service can be called again
Return ==
    /\ pc = "done"
    /\ pc' = "idle"
    /\ call' = IdleCall
    /\ result' = NoResult
    /\ UNCHANGED <<phase, builder, client, svcVars, other>>

Next ==
    \/ \E u \in BaseUrls : BaseUrl(u)
    \/ \E t \in Transformers : AddRequestTransformer(t)
    \/ SetUnmarshaler("json")
    \/ \E r \in Handlers : SetRetryHandler(r)
    \/ SetHttpClient("custom")
    \/ Build
    \/ \E svc \in DispatchServices : InitService(svc)
    \/ \E i \in 1..Len(service) :
         \E args \in ArgLists(service[i].In), orders \in ArgOrders(service[i].In) :
            Invoke(i, args, orders)
    \/ \E o \in DoOutcomes, ans \in Answers : Do(o, ans)
    \/ \E i \in 1..Len(service) :
         \E args \in ArgLists(service[i].In), orders \in ArgOrders(service[i].In) :
            Open(i, args, orders)
    \/ \E err \in {NoErr, ErrDial} : Dial(err)
    \/ Return

Spec == Init /\ [][Next]_vars

----------------------------------------------------------------------------
(* Properties of the dispatch specification *)

RequestCall == call.kind = "request"
SocketCall == call.kind = "websocket"
Ended == pc \in {"done", "fault"}
OneMeaningful == (result.err = NoErr) # (result.payload = "zero")

\* C1: with the handler of NewBasicRetryHandler(N), a call whose every
\* transport attempt fails makes at most N+1 attempts, and has made exactly
\* N+1 when it returns the failure.
C1_RetriesAreBounded ==
    (RequestCall /\ client.retryHandler.kind = "basic"
                 /\ call.failedDos = call.attempts)
    => /\ call.attempts <= client.retryHandler.maxRetries + 1
       /\ (pc = "done" =>
              call.attempts = client.retryHandler.maxRetries + 1)

\* C2: a call of a non-streaming stub never ends in a fault, and the two
\* values it returns are a payload without failure or a failure with the
\* zero payload.
C2_TwoValuedResult ==
    RequestCall => /\ pc # "fault"
                   /\ (pc = "done" => OneMeaningful)

\* C6: the Client uses every value the Builder was given; requests go
\* through the *http.Client handed to SetHttpClient.
C6_ClientUsesBuilderValues ==
    phase # "builder" =>
        /\ client.baseUrl = builder.baseUrl
        /\ client.retryHandler = builder.retryHandler
        /\ client.unmarshaler = builder.unmarshaler
        /\ client.requestTransformers = builder.requestTransformers
        /\ (builder.httpClient # "nil" =>
               /\ client.httpClient = builder.httpClient
               /\ (call.attempts > 0 => call.via = builder.httpClient))

\* C7: after a failed transport attempt the request is sent again exactly
\* when a retry handler is configured and its Retry returned nil; otherwise
\* the call returns that failure (after one attempt when no handler is
\* configured).  Retry is called once per failed transport attempt and for
\* nothing else.
C7_ResendIffHandlerClears ==
    RequestCall =>
        /\ call.consults = IF client.retryHandler.kind = "none" THEN 0
                           ELSE call.failedDos
        /\ (pc = "send" =>
               /\ call.failedDos = call.attempts
               /\ (call.attempts > 0 =>
                      /\ client.retryHandler.kind # "none"
                      /\ call.lastRetry = NoErr))
        /\ (client.retryHandler.kind = "basic" /\ call.consults > 0 =>
               call.lastRetry = BasicRetry(client.retryHandler, ErrTransport))
        /\ (Ended /\ call.stage = "transport" =>
               /\ pc = "done"
               /\ result.payload = "zero"
               /\ IF client.retryHandler.kind = "none"
                  THEN call.attempts = 1 /\ result.err = ErrTransport
                  ELSE call.lastRetry # NoErr /\ result.err = call.lastRetry)
        /\ (Ended /\ call.stage \in {"build", "read", "decode", "ok"} =>
               call.failedDos = call.attempts - 1 \/ call.attempts = 0)

C7_Witness ==
    /\ RequestCall /\ pc = "done" /\ call.stage = "transport"
    /\ call.attempts = 2 /\ call.consults = 2
    /\ client.retryHandler.kind = "custom"

\* the values a chain of transformers leaves under the query key "t"
TraceValues(ts) == [k \in 1..Len(ts) |-> IF ts[k] = "ta" THEN <<"a">> ELSE <<"b">>]

TransformedInOrder ==
    /\ call.req.trace = client.requestTransformers
    /\ (client.requestTransformers # <<>> =>
           /\ <<"t">> \in DOMAIN call.req.query
           /\ call.req.query[<<"t">>] = TraceValues(client.requestTransformers))
    /\ Len(call.sent) = call.attempts
    /\ \A k \in 1..Len(call.sent) : call.sent[k] = call.req

\* C8 as stated: on every call of a non-streaming stub every registered
\* transformer is applied exactly once, in registration order, each to the
\* request returned by the previous one, and that request is the one sent
\* on every attempt.
C8_EveryCallTransformed ==
    (RequestCall /\ pc # "idle") => TransformedInOrder

\* C8 as amended: the same, on every call whose outbound request was built
\* (the call reached the send loop).
C8_BuiltRequestTransformed ==
    (RequestCall /\ (pc = "send" \/ call.attempts > 0)) => TransformedInOrder

C8_Witness ==
    /\ RequestCall /\ call.attempts = 2
    /\ client.requestTransformers = <<"tb", "ta">>

----------------------------------------------------------------------------
(* The compile specification: Client.Init on every declared service *)

InitBuilt ==
    /\ phase = "built"
    /\ builder = NewBuilder
    /\ client = BuilderBuild(NewBuilder)
    /\ service = <<>>
    /\ slots = <<>>
    /\ metas = <<>>
    /\ initErr = NoErr
    /\ pc = "idle"
    /\ call = IdleCall
    /\ result = NoResult
    /\ synth = NoSynth

NextCompile == \E svc \in CompileServices : InitService(svc)

SpecCompile == InitBuilt /\ [][NextCompile]_vars

Inited == phase = "inited"

IsFunc(i) == service[i].Kind = "func"

\* the stub Init was working on when it returned: every func field before
\* it has been bound
Reached(i) ==
    /\ i \in 1..Len(service)
    /\ IsFunc(i)
    /\ \A j \in 1..(i - 1) : IsFunc(j) => slots[j] # "unbound"

\* role fields as the declaration shows them
RoleFields(t, feature) ==
    {j \in 1..Len(t.fields) :
        t.fields[j].feature = feature /\ t.fields[j].Kind # "func"}

StructParams(f) ==
    {k \in 1..Len(f.In) : elementType(f.In[k]).Kind = "struct"}

HasRole(f, feature) ==
    \E k \in StructParams(f) : RoleFields(elementType(f.In[k]), feature) # {}

RECURSIVE BodyCountOver(_, _)
BodyCountOver(f, S) ==
    IF S = {} THEN 0
    ELSE LET k == CHOOSE y \in S : TRUE
         IN Cardinality(RoleFields(elementType(f.In[k]), FeatureBody))
            + BodyCountOver(f, S \ {k})

\* body-role fields over all structured parameters of the stub
BodyCount(f) == BodyCountOver(f, StructParams(f))

ValidShape(f) ==
    f.NumOut = 2 /\ f.Out1 = "error" /\ in(f.method, HttpMethods)

\* C3 as stated: when Init returns an error, no stub of the service is
\* bound to an invoker.
C3_AllOrNothing ==
    (Inited /\ initErr # NoErr) => \A i \in 1..Len(service) : slots[i] = "unbound"

\* C3 as amended: Init stops at the first stub that fails validation; that
\* stub and all after it are unbound, the func fields before it are bound.
\* Without error every func field is bound.
C3_BoundUpToFirstFailure ==
    Inited =>
        IF initErr = NoErr
        THEN \A i \in 1..Len(service) : IsFunc(i) <=> slots[i] # "unbound"
        ELSE \E k \in 1..Len(service) :
                /\ Reached(k)
                /\ initField(service[k]).err = initErr
                /\ \A j \in 1..(k - 1) :
                      IsFunc(j) => initField(service[j]).err = NoErr
                /\ \A j \in k..Len(service) : slots[j] = "unbound"

C3_Witness ==
    /\ Inited /\ initErr # NoErr
    /\ Len(service) = 2 /\ slots[1] = "request" /\ slots[2] = "unbound"

\* C10 as stated: Init fails with the body/form-field conflict error for
\* every stub (that it reaches) having a body-role field in some structured
\* parameter and a form-field-role field in some structured parameter.
C10_ConflictForEveryMixedStub ==
    Inited =>
        \A i \in 1..Len(service) :
            (Reached(i) /\ HasRole(service[i], FeatureBody)
                        /\ HasRole(service[i], FeatureField))
            => initErr = ErrBodyAndFields

\* C10 as amended: the same for stubs that pass the checks made before it
\* (result shape, verb, a single body-role field); and the conflict error
\* is raised only at a stub that has both kinds.
C10_ConflictAfterEarlierChecks ==
    Inited =>
        /\ \A i \in 1..Len(service) :
              (Reached(i) /\ ValidShape(service[i])
                          /\ BodyCount(service[i]) = 1
                          /\ HasRole(service[i], FeatureField))
              => (initErr = ErrBodyAndFields /\ slots[i] = "unbound")
        /\ (initErr = ErrBodyAndFields =>
              \E i \in 1..Len(service) :
                 /\ Reached(i) /\ slots[i] = "unbound"
                 /\ HasRole(service[i], FeatureBody)
                 /\ HasRole(service[i], FeatureField))
        /\ \A i \in 1..Len(service) :
              (Reached(i) /\ ValidShape(service[i])
                          /\ BodyCount(service[i]) <= 1
                          /\ ~(HasRole(service[i], FeatureBody)
                               /\ HasRole(service[i], FeatureField)))
              => slots[i] # "unbound"

C10_Witness ==
    /\ Inited /\ initErr = ErrBodyAndFields
    /\ Len(service) = 1 /\ Len(service[1].In) = 2
    /\ service[1].In[1] = BodyArg

\* C11 as stated: Init fails with the multiple-body error for every stub
\* (that it reaches) whose structured parameters hold more than one
\* body-role field in total.
C11_MultipleBodyAlwaysReported ==
    Inited =>
        \A i \in 1..Len(service) :
            (Reached(i) /\ BodyCount(service[i]) > 1) => initErr = ErrOneBody

\* C11 as amended: the same for stubs that pass the checks on the result
\* shape and the verb, whether the body-role fields are in one record or
\* in several parameters; the error is raised only at a stub with more
\* than one body-role field; and for a stub with at most one, hasBody is
\* true exactly when there is one.
C11_MultipleBodyAfterShapeChecks ==
    Inited =>
        /\ \A i \in 1..Len(service) :
              (Reached(i) /\ ValidShape(service[i])
                          /\ BodyCount(service[i]) > 1)
              => (initErr = ErrOneBody /\ slots[i] = "unbound")
        /\ (initErr = ErrOneBody =>
              \E i \in 1..Len(service) :
                 /\ Reached(i) /\ slots[i] = "unbound"
                 /\ BodyCount(service[i]) > 1)
        /\ \A i \in 1..Len(service) :
              (Reached(i) /\ ValidShape(service[i])
                          /\ BodyCount(service[i]) <= 1)
              => /\ initField(service[i]).err # ErrOneBody
                 /\ initField(service[i]).meta.hasBody
                       <=> (BodyCount(service[i]) = 1)
                 /\ slots[i] # "unbound" =>
                       (metas[i].hasBody <=> (BodyCount(service[i]) = 1))

\* the two bodies are in different parameters
C11_Witness ==
    /\ Inited /\ initErr = ErrOneBody
    /\ Len(service) = 2 /\ slots[1] = "request" /\ metas[1].hasBody
    /\ service[2].In = <<PtrTo(BodyArg), PtrTo(BodyArg)>>

ValidSignature(f) == f.NumOut = 2 /\ f.Out1 = "error"

SignatureErrors == {ErrTwoValues, ErrSecondError}

\* C12: at the stub where Init stops, the first violated rule is the one
\* reported: a signature error unless there are exactly two results and
\* the second is error; otherwise the unsupported-method error unless the
\* verb is supported, whatever the parameters are; and a stub with a valid
\* signature and a supported verb is rejected by neither check.
C12_FirstViolatedRuleReported ==
    Inited =>
        \A i \in 1..Len(service) :
            Reached(i) =>
                /\ ~ValidSignature(service[i]) =>
                      /\ slots[i] = "unbound"
                      /\ initErr = IF service[i].NumOut # 2
                                   THEN ErrTwoValues ELSE ErrSecondError
                /\ (ValidSignature(service[i])
                      /\ service[i].method \notin
                            {"GET", "POST", "PUT", "DELETE"}) =>
                      /\ slots[i] = "unbound"
                      /\ initErr = ErrUnsupportedMethod
                /\ (ValidSignature(service[i])
                      /\ service[i].method \in
                            {"GET", "POST", "PUT", "DELETE"}) =>
                      \/ slots[i] # "unbound"
                      \/ initErr \notin
                            SignatureErrors \cup {ErrUnsupportedMethod}

\* a stub wrong in its results and in its verb, behind a stub that is bound
C12_Witness ==
    /\ Inited /\ initErr = ErrSecondError
    /\ Len(service) = 2 /\ slots[1] = "request"
    /\ service[2].NumOut = 2 /\ service[2].method = "BOGUS"

----------------------------------------------------------------------------
(* The synthesizer specification: buildRequestMeta run twice on one input *)

PathOmitArg ==
    StructType(<<Field(<<"I", "d">>, "int", "path", <<"i", "d">>, OmitEmpty)>>)
QueryPairArg ==
    StructType(<<Field(<<"Q">>, "string", "query", <<"q">>, OmitEmpty),
                 Field(<<"X">>, "int", "query", <<"q">>, NoOptions)>>)
HeaderPairArg ==
    StructType(<<Field(<<"A">>, "string", "header", <<"x">>, NoOptions),
                 Field(<<"B">>, "int", "header", <<"X">>, <<"a", "omitempty">>)>>)
TwoPathArg ==
    StructType(<<Field(<<"A">>, "string", "path", <<"a">>, NoOptions),
                 Field(<<"B">>, "string", "path", <<"b">>, OmitEmpty)>>)
FormOmitArg ==
    StructType(<<Field(<<"F">>, "string", "field", <<"x">>, OmitEmpty),
                 Field(<<"D">>, "int", "field", <<>>, NoOptions)>>)
BodyOmitArg == StructType(<<Field(<<"B">>, "bytes", "body", <<>>, OmitEmpty)>>)
BodyNamedArg == StructType(<<Field(<<"B">>, "bytes", "body", <<"x">>, NoOptions)>>)
BodyStringArg == StructType(<<Field(<<"B">>, "string", "body", <<>>, NoOptions)>>)

PathBArg == StructType(<<Field(<<"B">>, "string", "path", <<"b">>, NoOptions)>>)

PathAB == <<"/", "{", "a", "}", "/", "{", "b", "}">>
PathIdxB == <<"/", "{", "0", "}", "/", "{", "b", "}">>
Path021 == <<"/", "{", "0", "}", "/", "{", "2", "}", "/", "{", "1", "}">>
PathIdxId == <<"/", "{", "0", "}", "/", "{", "i", "d", "}">>

SynthStubs ==
    { Func(<<IntType>>, 2, "bytes", "error", "GET", PathIdx),
      Func(<<PtrTo(PathArg)>>, 2, "bytes", "error", "GET", PathId),
      Func(<<PtrTo(PathOmitArg)>>, 2, "bytes", "error", "GET", PathId),
      Func(<<StringType, PathOmitArg>>, 2, "bytes", "error", "GET", PathIdxId),
      Func(<<PtrTo(QueryPairArg)>>, 2, "bytes", "error", "GET", <<"/">>),
      Func(<<PtrTo(HeaderPairArg)>>, 2, "bytes", "error", "GET", <<"/">>),
      Func(<<PtrTo(TwoPathArg)>>, 2, "bytes", "error", "GET", PathAB),
      Func(<<PtrTo(FormOmitArg)>>, 2, "bytes", "error", "POST", <<"/">>),
      Func(<<PtrTo(BodyArg)>>, 2, "bytes", "error", "POST", <<"/">>),
      Func(<<PtrTo(BodyOmitArg)>>, 2, "bytes", "error", "POST", <<"/">>),
      Func(<<PtrTo(BodyNamedArg)>>, 2, "bytes", "error", "PUT", <<"/">>),
      Func(<<BodyStringArg>>, 2, "bytes", "error", "PUT", <<"/">>),
      Func(<<PtrTo(FieldBodyArg)>>, 2, "bytes", "error", "POST", <<"/">>),
      Func(<<StringType, StringType, StringType>>, 2, "bytes", "error", "GET", Path021),
      Func(<<StringType, PathBArg>>, 2, "bytes", "error", "GET", PathIdxB),
      Func(<<PtrTo(FieldArg), PtrTo(BodyArg)>>, 2, "bytes", "error", "POST", <<"/">>),
      Func(<<PtrTo(BodyArg), PtrTo(QueryPairArg)>>, 2, "bytes", "error", "POST", <<"/">>) }

\* the stubs Init accepts: only these get an invoker
Compiled(stubs) == {f \in stubs : initField(f).err = NoErr}

InitSynth ==
    /\ phase = "inited"
    /\ builder = NewBuilder
    /\ client = BuilderBuild(NewBuilder)
    /\ service = <<>>
    /\ slots = <<>>
    /\ metas = <<>>
    /\ initErr = NoErr
    /\ pc = "idle"
    /\ call = IdleCall
    /\ result = NoResult
    /\ \E f \in Compiled(SynthStubs) :
         \E args \in ArgLists(f.In) :
            synth = [NoSynth EXCEPT !.stub = f, !.meta = initField(f).meta,
                                    !.args = args]

\* one invocation of buildRequestMeta on the input
Synthesize(orders) ==
    /\ synth.n < 2
    /\ synth' = IF synth.n = 0
                THEN [synth EXCEPT
                        !.n = 1, !.o1 = orders,
                        !.r1 = buildRequestMeta(synth.meta, synth.args, orders)]
                ELSE [synth EXCEPT
                        !.n = 2, !.o2 = orders,
                        !.r2 = buildRequestMeta(synth.meta, synth.args, orders)]
    /\ UNCHANGED <<phase, builder, client, svcVars, callVars>>

NextSynth == \E orders \in ArgOrders(synth.stub.In) : Synthesize(orders)

SpecSynth == InitSynth /\ [][NextSynth]_vars

\* C4: two invocations of buildRequestMeta on the same descriptor and the
\* same arguments return the same RequestMeta.
C4_SameInputSameRequest == synth.n = 2 => synth.r1 = synth.r2

MapDel(m, k) == [x \in (DOMAIN m) \ {k} |-> m[x]]

\* the descriptor with one role field of parameter k taken out
DropField(meta, k, role, fn) ==
    CASE role = "path" ->
           [meta EXCEPT !.methodArgs[k].structMeta.pathFields = MapDel(@, fn)]
      [] role = "query" ->
           [meta EXCEPT !.methodArgs[k].structMeta.queryFields = MapDel(@, fn)]
      [] role = "header" ->
           [meta EXCEPT !.methodArgs[k].structMeta.headerFields = MapDel(@, fn)]
      [] role = "field" ->
           [meta EXCEPT !.methodArgs[k].structMeta.formFields = MapDel(@, fn)]
      [] role = "body" ->
           [meta EXCEPT !.methodArgs[k].structMeta.bodyField = NoBodyField]

RoleMap(sm, role) ==
    CASE role = "path" -> sm.pathFields
      [] role = "query" -> sm.queryFields
      [] role = "header" -> sm.headerFields
      [] role = "field" -> sm.formFields

Occurs(sub, str) ==
    \E i \in 1..(Len(str) - Len(sub) + 1) :
        SubSeq(str, i, i + Len(sub) - 1) = sub

InList(x, key, m) ==
    key \in DOMAIN m /\ \E i \in 1..Len(m[key]) : m[key][i] = x

\* the first invocation, had the field not been declared
Without(k, role, fn) ==
    buildRequestMeta(DropField(synth.meta, k, role, fn), synth.args, synth.o1)

\* is the value v of a field declared as a in the request
Included(role, a, v, without) ==
    CASE role = "path" ->
           (Occurs(Placeholder(a.Name), without.rm.path)
               /\ Sprint(v) # Placeholder(a.Name))
           => synth.r1.rm.path # without.rm.path
      [] role = "query" -> InList(Sprint(v), a.Name, synth.r1.rm.query)
      [] role = "header" ->
           InList(Sprint(v), CanonicalHeaderKey(a.Name), synth.r1.rm.headers)
      [] role = "field" -> InList(Sprint(v), a.Name, synth.r1.rm.fields)

OmitEmptyHonoured(k, role, fn) ==
    LET a == RoleMap(synth.meta.methodArgs[k].structMeta, role)[fn]
        v == FieldByName(elementValue(synth.args[k]), fn)
    IN IF a.OmitEmpty /\ isEmptyValue(v)
       THEN synth.r1 = Without(k, role, fn)
       ELSE Included(role, a, v, Without(k, role, fn))

BodyOmitEmptyHonoured(k) ==
    LET a == synth.meta.methodArgs[k].structMeta.bodyField
        v == FieldByName(elementValue(synth.args[k]), a.Name)
    IN (a.set /\ IsValid(v)) =>
          IF a.OmitEmpty /\ isEmptyValue(v)
          THEN synth.r1 = Without(k, "body", a.Name)
          ELSE synth.r1.rm.body.data = v.b

\* C5: in every role, a field marked omitempty whose value is zero adds
\* nothing to the request (the request is the one built without the
\* field); a field that is not omitted is in the request.
C5_OmitEmptyInEveryRole ==
    (synth.n >= 1 /\ ~synth.r1.panic) =>
        \A k \in 1..Len(synth.args) :
            (synth.meta.methodArgs[k].isStruct
                /\ IsValid(elementValue(synth.args[k])))
            => /\ \A role \in {"path", "query", "header", "field"} :
                    \A fn \in DOMAIN RoleMap(synth.meta.methodArgs[k].structMeta, role) :
                        OmitEmptyHonoured(k, role, fn)
               /\ BodyOmitEmptyHonoured(k)

----------------------------------------------------------------------------
(* The resolved path *)

\* external name of a declared field: rc_name, or the field's own name
ExternalName(field) == IF field.name = <<>> THEN field.Name ELSE field.name

\* what the call supplies for the placeholders: {i} for the scalar argument
\* at position i, {externalName} for each path-role field of a record
Substitutions ==
    UNION {
      IF elementType(synth.stub.In[k]).Kind = "struct"
      THEN {[ph |-> Placeholder(ExternalName(elementType(synth.stub.In[k]).fields[j])),
             val |-> Sprint(elementValue(synth.args[k]).f[
                               elementType(synth.stub.In[k]).fields[j].Name])] :
               j \in RoleFields(elementType(synth.stub.In[k]), FeaturePath)}
      ELSE {[ph |-> Placeholder(FormatInt(k - 1)), val |-> Sprint(synth.args[k])]}
      : k \in 1..Len(synth.args) }

StartsWith(t, ph) == Len(t) >= Len(ph) /\ SubSeq(t, 1, Len(ph)) = ph

\* the template with every placeholder occurrence replaced by its value and
\* the rest left as it is
RECURSIVE Resolved(_, _)
Resolved(t, subs) ==
    IF t = <<>> THEN <<>>
    ELSE IF \E p \in subs : StartsWith(t, p.ph)
    THEN LET p == CHOOSE q \in subs : StartsWith(t, q.ph)
         IN p.val \o Resolved(SubSeq(t, Len(p.ph) + 1, Len(t)), subs)
    ELSE <<t[1]>> \o Resolved(Tail(t), subs)

\* every record argument is there, no path-role field is one that omitempty
\* leaves out, and no two placeholders are the same
PathInputsPlain ==
    /\ \A k \in 1..Len(synth.args) :
          elementType(synth.stub.In[k]).Kind = "struct" =>
             /\ IsValid(elementValue(synth.args[k]))
             /\ \A j \in RoleFields(elementType(synth.stub.In[k]), FeaturePath) :
                   ~(in(OptionOmitEmpty, elementType(synth.stub.In[k]).fields[j].options)
                     /\ isEmptyValue(elementValue(synth.args[k]).f[
                            elementType(synth.stub.In[k]).fields[j].Name]))
    /\ \A p, q \in Substitutions : p.ph = q.ph => p = q

\* C13: the resolved path is the template with every occurrence of {i}
\* replaced by the string form of the scalar argument at position i and
\* every occurrence of {externalName} by the string form of the matching
\* path-role field, whatever the values are; the rest is unchanged.
C13_PathIsTemplateSubstituted ==
    (synth.n >= 1 /\ ~synth.r1.panic /\ synth.r1.err = NoErr /\ PathInputsPlain)
    => synth.r1.rm.path = Resolved(synth.stub.path, Substitutions)

----------------------------------------------------------------------------
(* The request body *)

\* the body-role field j of the record passed as argument k is present
\* and not left out by omitempty
BodySupplied(k, j) ==
    LET field == elementType(synth.stub.In[k]).fields[j]
        v == elementValue(synth.args[k]).f[field.Name]
    IN /\ field.Kind = "bytes"
       /\ ~(in(OptionOmitEmpty, field.options) /\ isEmptyValue(v))

\* C14: for a record argument with a body-role field that is present and
\* not omitted, the body of the synthesized request is that field's bytes,
\* with or without an external-name override on the field.
C14_BodyIsFieldBytes ==
    (synth.n >= 1 /\ ~synth.r1.panic /\ synth.r1.err = NoErr) =>
        \A k \in 1..Len(synth.args) :
            (elementType(synth.stub.In[k]).Kind = "struct"
                /\ IsValid(elementValue(synth.args[k])))
            => \A j \in RoleFields(elementType(synth.stub.In[k]), FeatureBody) :
                  BodySupplied(k, j) =>
                     synth.r1.rm.body.data =
                        elementValue(synth.args[k]).f[
                           elementType(synth.stub.In[k]).fields[j].Name].b

----------------------------------------------------------------------------
(* The call-time check of body against form fields *)

\* some record argument of the call has a body-role field that gave the
\* request its body
BodyFromField ==
    \E k \in 1..Len(synth.args) :
        /\ elementType(synth.stub.In[k]).Kind = "struct"
        /\ IsValid(elementValue(synth.args[k]))
        /\ \E j \in RoleFields(elementType(synth.stub.In[k]), FeatureBody) :
              LET v == FieldByName(elementValue(synth.args[k]),
                          ExternalName(elementType(synth.stub.In[k]).fields[j]))
              IN /\ IsValid(v)
                 /\ v.Kind = "bytes" /\ ~v.isNil
                 /\ ~(in(OptionOmitEmpty,
                          elementType(synth.stub.In[k]).fields[j].options)
                      /\ isEmptyValue(v))

\* C15: no call of a stub that Init compiled ends in the call-time
\* body/form-field conflict error, and no synthesized request has both a
\* body given by a body-role field and form-field pairs.
C15_NoCallTimeConflict ==
    synth.n >= 1 =>
        /\ synth.r1.err # ErrIncompatible
        /\ ~(BodyFromField /\ DOMAIN synth.r1.rm.fields # {})

\* a call with form fields: the call-time check is entered and passes
C15_Witness ==
    /\ synth.n >= 1 /\ synth.r1.err = NoErr /\ ~synth.r1.panic
    /\ DOMAIN synth.r1.rm.fields # {}
    /\ synth.r1.rm.body.data = BytesOf(Encode(synth.r1.rm.fields))
    /\ Len(synth.r1.rm.body.data) > 0

====
